---- MODULE Spec2Model ----
(***************************************************************************)
(* A model of include/triton/Analysis/Utility.h: the CallGraph<T> class    *)
(* (build, walk/doWalk, topologicalSort/doTopologicalSort, getFuncData)    *)
(* and the numeric helpers product and highestPowOf2Divisor.               *)
(***************************************************************************)
EXTENDS Integers, Sequences, FiniteSets, TLC

(***************************************************************************)
(* Bounds of the model.                                                    *)
(***************************************************************************)
\* Number of triton::FuncOp operations in the module.
NumFuncs == 3
\* Number of triton::CallOp operations in the module.
NumCalls == 2
\* Depth of the machine stack available to doTopologicalSort's recursion.
MaxStack == 5
\* Number of walk invocations made on one CallGraph object.
MaxWalks == 2

Funcs == 1 .. NumFuncs
Calls == 1 .. NumCalls
\* A null triton::FuncOp / Operation* (getParentOfType found none,
\* resolveCallable resolved to nothing of the expected kind).
NoFunc == 0
NoCall == 0

PreOrder == "PreOrder"
PostOrder == "PostOrder"
WalkOrder == {PreOrder, PostOrder}

VARIABLES
  \* ---- the module handed to the constructor (never changes) ----
  nested,      \* the FuncOps whose IR parent is another FuncOp
  callParent,  \* CallOp -> the FuncOp enclosing it
  callTarget,  \* CallOp -> the FuncOp its symbol resolves to, or NoFunc
  \* ---- the CallGraph object ----
  callGraph,   \* DenseMap<FuncOp, SmallVector<pair<CallOp, FuncOp>>>
  funcMap,     \* DenseMap<FuncOp, T>
  roots,       \* SmallVector<FuncOp>
  \* ---- the operation in progress ----
  phase,       \* "new", "idle", "walk", "fatal", "topo", "overflow"
  edgeOrder,   \* template argument UpdateEdgeOrder of the walk
  nodeOrder,   \* template argument UpdateNodeOrder of the walk
  rootIdx,     \* position of walk's / topologicalSort's loop over roots
  stack,       \* activation records of doWalk / doTopologicalSort
  visited,     \* walk's local DenseSet<CallOp>
  funcs,       \* topologicalSort's local SmallVector<FuncOp>
  ret,         \* what the last completed call returned
  \* ---- observation ----
  trace,       \* events of the walk in progress (or of the last one)
  prevTrace,   \* events of the walk before that
  walks,       \* number of walks that returned
  \* ---- numeric helpers ----
  numOp,       \* the helper that is called
  intKind,     \* the integer type the template is instantiated with
  xs,          \* argument of product
  n,           \* argument of highestPowOf2Divisor
  order,       \* argument order of reorder (xs is its input)
  numOut,      \* result of the helper applied
  \* ---- ReduceOpHelper ----
  rop,         \* the triton::ReduceOp handed to the constructor
  helper,      \* the ReduceOpHelper constructed, or None
  diags        \* the diagnostics emitted, in order

graphVars == <<callGraph, funcMap, roots, phase, edgeOrder, nodeOrder,
               rootIdx, stack, visited, funcs, ret, trace, prevTrace, walks>>
moduleVars == <<nested, callParent, callTarget>>
numVars == <<numOp, intKind, xs, n, order, numOut>>
reduceVars == <<rop, helper, diags>>
vars == <<moduleVars, graphVars, numVars, reduceVars>>

None == [kind |-> "none"]

(***************************************************************************)
(* Sequence helpers.                                                       *)
(***************************************************************************)
RECURSIVE Reverse(_)
Reverse(s) == IF s = <<>> THEN <<>> ELSE Append(Reverse(Tail(s)), Head(s))

Range(s) == {s[i] : i \in DOMAIN s}

\* SetVector::insert applied to the elements of s in order: an element
\* already present is not inserted again.
RECURSIVE SetVectorInsertAll(_, _)
SetVectorInsertAll(sv, s) ==
  IF s = <<>> THEN sv
  ELSE SetVectorInsertAll(IF Head(s) \in Range(sv) THEN sv
                          ELSE Append(sv, Head(s)), Tail(s))

IndexOf(s, x) == CHOOSE i \in DOMAIN s : s[i] = x

(***************************************************************************)
(* DenseMap::operator[]: the entry of key f, default-constructed and       *)
(* inserted when the map holds none.                                       *)
(***************************************************************************)
MapInsertDefault(m, f, dflt) ==
  IF f \in DOMAIN m THEN m ELSE [g \in DOMAIN m \cup {f} |->
                                   IF g = f THEN dflt ELSE m[g]]

\* callGraph[funcOp] as doWalk and doTopologicalSort evaluate it.  The
\* reference the range-for keeps into the map is taken to stay valid while
\* the recursion inserts further keys: the maps modelled hold fewer keys
\* than a DenseMap's first allocation, so no insertion rehashes.
CallGraphLookup(cg, f) == MapInsertDefault(cg, f, <<>>)

(***************************************************************************)
(* The constructor: build().                                               *)
(***************************************************************************)
\* The operations of the module in the order moduleOp.walk visits them
\* (post-order: the operations nested in a function before the function).
OpsOfFunc(f) ==
  LET cs == {c \in Calls : callParent[c] = f}
      RECURSIVE Asc(_, _)
      Asc(S, acc) == IF S = {} THEN acc
                     ELSE LET m == CHOOSE x \in S : \A y \in S : x <= y
                          IN Asc(S \ {m}, Append(acc, [kind |-> "call", id |-> m]))
  IN Append(Asc(cs, <<>>), [kind |-> "func", id |-> f])

RECURSIVE ModuleOps(_)
ModuleOps(f) == IF f > NumFuncs THEN <<>> ELSE OpsOfFunc(f) \o ModuleOps(f + 1)

\* A mutant: the edge is recorded without testing what the callee
\* resolved to.
BuildVisitUnresolved(g, op) ==
  IF op.kind = "call"
  THEN LET parent == callParent[op.id]
           cg == CallGraphLookup(g.callGraph, parent)
       IN [g EXCEPT !.callGraph =
             [cg EXCEPT ![parent] = Append(@, <<op.id, callTarget[op.id]>>)]]
  ELSE IF op.id \notin nested
       THEN [g EXCEPT !.roots = Append(@, op.id)]
       ELSE g

\* The callback build() hands to moduleOp.walk, applied to one operation.
BuildVisit(g, op) ==
  IF op.kind = "call"
  THEN LET parent == callParent[op.id]
           funcOp == callTarget[op.id]
       IN IF funcOp # NoFunc
          THEN LET cg == CallGraphLookup(g.callGraph, parent)
               IN [g EXCEPT !.callGraph =
                     [cg EXCEPT ![parent] = Append(@, <<op.id, funcOp>>)]]
          ELSE g
  ELSE IF op.id \notin nested
       THEN [g EXCEPT !.roots = Append(@, op.id)]
       ELSE g

RECURSIVE BuildWalk(_, _)
BuildWalk(g, ops) ==
  IF ops = <<>> THEN g ELSE BuildWalk(BuildVisit(g, Head(ops)), Tail(ops))

EmptyMap == [f \in {} |-> <<>>]

Build ==
  /\ phase = "new"
  /\ LET g == BuildWalk([callGraph |-> EmptyMap, roots |-> <<>>], ModuleOps(1))
     IN /\ callGraph' = g.callGraph
        /\ roots' = g.roots
  /\ phase' = "idle"
  /\ UNCHANGED <<funcMap, edgeOrder, nodeOrder, rootIdx, stack, visited,
                 funcs, ret, trace, prevTrace, walks>>
  /\ UNCHANGED <<moduleVars, numVars, reduceVars>>

(***************************************************************************)
(* walk<UpdateEdgeOrder, UpdateNodeOrder>(updateEdgeFn, updateNodeFn).     *)
(***************************************************************************)
\* What the walk does, as a sequence of events: a hook invocation
\* ("node", "edge"), the start and end of one doWalk activation ("enter",
\* "leave": call is the call-site it was entered through, NoCall for a
\* root; depth is the recursion depth), or the fatal error.
Event(k, c, f, d) == [kind |-> k, call |-> c, func |-> f, depth |-> d]

\* updateNodeFn(funcOp, funcMap): the user's hook allocates the slot of the
\* function it is handed (funcMap[funcOp]).
NodeHookMap(fm, f) == MapInsertDefault(fm, f, "T")

\* The invocations of updateNodeFn doWalk makes on entry, before the loop
\* over the edges.
\* A mutant: the pre-order node hook runs for the roots only.
NodeHooksOnEntryOfRoot(no, c, f, d) ==
  IF no = PreOrder /\ c = NoCall THEN <<Event("node", c, f, d)>> ELSE <<>>

NodeHooksOnEntry(no, c, f, d) ==
  IF no = PreOrder THEN <<Event("node", c, f, d)>> ELSE <<>>

\* The invocations of updateNodeFn doWalk makes after the loop over the
\* edges.
NodeHooksOnExit(no, c, f, d) ==
  IF no = PostOrder THEN <<Event("node", c, f, d)>> ELSE <<>>

\* The invocations of updateEdgeFn(callOp, callee) doWalk makes for one edge
\* before it recurses into callee.
EdgeHooksBeforeCall(eo, c, callee, d) ==
  (IF eo = PreOrder THEN <<Event("edge", c, callee, d)>> ELSE <<>>)
  \o <<Event("edge", c, callee, d)>>
  \o (IF eo = PostOrder THEN <<Event("edge", c, callee, d)>> ELSE <<>>)

\* The invocations of updateEdgeFn doWalk makes for one edge after the
\* recursion into callee has returned: none, the call is followed by
\* visited.erase(callOp) alone.
EdgeHooksAfterCall(eo, c, callee, d) == <<>>

\* The template arguments of the recursive call doWalk(callee, ...): it
\* names none, so the defaults of the template declaration apply.
RecursiveOrders(eo, no) == [eo |-> PreOrder, no |-> PreOrder]

\* A mutant: the test of visited is left out.
CycleDetectedNever(vis, c) == FALSE

\* if (visited.count(callOp)) report_fatal_error(...)
CycleDetected(vis, c) == c \in vis

\* A mutant: the call-site is not recorded.
VisitedInsertNothing(vis, c) == vis

\* visited.insert(callOp)
VisitedInsert(vis, c) == vis \cup {c}

\* A mutant: the call-site stays in visited after its traversal.
VisitedEraseNever(vis, c) == vis

\* A mutant: visited is cleared after a traversal.
VisitedEraseAll(vis, c) == {}

\* visited.erase(callOp)
VisitedErase(vis, c) == vis \ {c}

\* A mutant: the loop runs over the keys of the callGraph map and then the
\* remaining roots, an order that changes as operator[] inserts keys.
WalkRootsByMapOrder(rs, cg) ==
  LET Keyed(f) == f \in DOMAIN cg
      Unkeyed(f) == f \notin DOMAIN cg
  IN SelectSeq(rs, Keyed) \o SelectSeq(rs, Unkeyed)

\* The order in which walk's loop visits the roots.
WalkRoots(rs, cg) == rs

\* An activation of doWalk that is in its loop over the edges, about to
\* look at edge idx of callGraph[func].
Frame(f, c, eo, no) == [func |-> f, via |-> c, idx |-> 1, eo |-> eo, no |-> no]

Top == stack[Len(stack)]

\* walk(...) is called: DenseSet<CallOp> visited is created empty.  A second
\* walk on the same object is handed the same template arguments and hooks.
WalkBegin(eo, no) ==
  /\ phase = "idle"
  /\ walks < MaxWalks
  /\ walks > 0 => (eo = edgeOrder /\ no = nodeOrder)
  /\ phase' = "walk"
  /\ edgeOrder' = eo
  /\ nodeOrder' = no
  /\ visited' = {}
  /\ rootIdx' = 1
  /\ stack' = <<>>
  /\ prevTrace' = trace
  /\ trace' = <<>>
  /\ ret' = None
  /\ UNCHANGED <<callGraph, funcMap, roots, funcs, walks>>
  /\ UNCHANGED <<moduleVars, numVars, reduceVars>>

\* for (auto root : roots) doWalk<UpdateEdgeOrder, UpdateNodeOrder>(root, ...):
\* doWalk is entered, runs the pre-order node hook and starts the range-for,
\* which evaluates callGraph[funcOp].
WalkRoot ==
  /\ phase = "walk"
  /\ stack = <<>>
  /\ rootIdx <= Len(roots)
  /\ LET root == WalkRoots(roots, callGraph)[rootIdx]
         hooks == NodeHooksOnEntry(nodeOrder, NoCall, root, 1)
     IN /\ stack' = <<Frame(root, NoCall, edgeOrder, nodeOrder)>>
        /\ trace' = Append(trace, Event("enter", NoCall, root, 1)) \o hooks
        /\ funcMap' = IF hooks # <<>> THEN NodeHookMap(funcMap, root) ELSE funcMap
        /\ callGraph' = CallGraphLookup(callGraph, root)
  /\ rootIdx' = rootIdx + 1
  /\ UNCHANGED <<roots, phase, edgeOrder, nodeOrder, visited, funcs, ret,
                 prevTrace, walks>>
  /\ UNCHANGED <<moduleVars, numVars, reduceVars>>

\* The loop over roots is over: walk returns.
WalkEnd ==
  /\ phase = "walk"
  /\ stack = <<>>
  /\ rootIdx > Len(roots)
  /\ phase' = "idle"
  /\ walks' = walks + 1
  /\ ret' = [kind |-> "walk"]
  /\ UNCHANGED <<callGraph, funcMap, roots, edgeOrder, nodeOrder, rootIdx,
                 stack, visited, funcs, trace, prevTrace>>
  /\ UNCHANGED <<moduleVars, numVars, reduceVars>>

\* One iteration of the loop over the edges, up to and into the recursive
\* call: the callee's doWalk is entered, runs its pre-order node hook and
\* starts its range-for.
DoWalkEdge ==
  /\ phase = "walk"
  /\ stack # <<>>
  /\ Top.idx <= Len(callGraph[Top.func])
  /\ LET callOp == callGraph[Top.func][Top.idx][1]
         callee == callGraph[Top.func][Top.idx][2]
         d == Len(stack)
         rec == RecursiveOrders(Top.eo, Top.no)
         hooks == NodeHooksOnEntry(rec.no, callOp, callee, d + 1)
     IN /\ ~CycleDetected(visited, callOp)
        /\ visited' = VisitedInsert(visited, callOp)
        /\ trace' = trace \o EdgeHooksBeforeCall(Top.eo, callOp, callee, d)
                          \o <<Event("enter", callOp, callee, d + 1)>>
                          \o hooks
        /\ funcMap' = IF hooks # <<>> THEN NodeHookMap(funcMap, callee) ELSE funcMap
        /\ callGraph' = CallGraphLookup(callGraph, callee)
        /\ stack' = Append(stack, Frame(callee, callOp, rec.eo, rec.no))
  /\ UNCHANGED <<roots, phase, edgeOrder, nodeOrder, rootIdx, funcs, ret,
                 prevTrace, walks>>
  /\ UNCHANGED <<moduleVars, numVars, reduceVars>>

\* The call-site of the next edge is in visited: report_fatal_error.
DoWalkCycle ==
  /\ phase = "walk"
  /\ stack # <<>>
  /\ Top.idx <= Len(callGraph[Top.func])
  /\ LET callOp == callGraph[Top.func][Top.idx][1]
         callee == callGraph[Top.func][Top.idx][2]
     IN /\ CycleDetected(visited, callOp)
        /\ trace' = Append(trace, Event("fatal", callOp, callee, Len(stack)))
  /\ phase' = "fatal"
  /\ UNCHANGED <<callGraph, funcMap, roots, edgeOrder, nodeOrder, rootIdx,
                 stack, visited, funcs, ret, prevTrace, walks>>
  /\ UNCHANGED <<moduleVars, numVars, reduceVars>>

\* The loop over the edges is over: the post-order node hook, and doWalk
\* returns; its caller (if it is a doWalk) erases the call-site and goes on
\* to its next edge.
DoWalkReturn ==
  /\ phase = "walk"
  /\ stack # <<>>
  /\ Top.idx > Len(callGraph[Top.func])
  /\ LET f == Top.func
         d == Len(stack)
         below == SubSeq(stack, 1, d - 1)
         hooks == NodeHooksOnExit(Top.no, Top.via, f, d)
     IN /\ funcMap' = IF hooks # <<>> THEN NodeHookMap(funcMap, f) ELSE funcMap
        /\ IF d = 1
           THEN /\ stack' = <<>>
                /\ trace' = trace \o hooks \o <<Event("leave", Top.via, f, d)>>
                /\ visited' = visited
           ELSE LET caller == stack[d - 1]
                IN /\ stack' = [below EXCEPT ![d - 1].idx = @ + 1]
                   /\ trace' = trace \o hooks
                                 \o <<Event("leave", Top.via, f, d)>>
                                 \o EdgeHooksAfterCall(caller.eo, Top.via, f, d - 1)
                   /\ visited' = VisitedErase(visited, Top.via)
  /\ UNCHANGED <<callGraph, roots, phase, edgeOrder, nodeOrder, rootIdx,
                 funcs, ret, prevTrace, walks>>
  /\ UNCHANGED <<moduleVars, numVars, reduceVars>>

(***************************************************************************)
(* topologicalSort().                                                      *)
(***************************************************************************)
TopoFrame(f) == [func |-> f, idx |-> 1]

\* topologicalSort() is called: SmallVector<FuncOp> funcs is created empty.
\* The sort is run on a CallGraph no walk has been made on yet.
TopoBegin ==
  /\ phase = "idle"
  /\ walks = 0
  /\ ret.kind # "sorted"
  /\ phase' = "topo"
  /\ funcs' = <<>>
  /\ rootIdx' = 1
  /\ stack' = <<>>
  /\ ret' = None
  /\ UNCHANGED <<callGraph, funcMap, roots, edgeOrder, nodeOrder,
                 visited, trace, prevTrace, walks>>
  /\ UNCHANGED <<moduleVars, numVars, reduceVars>>

\* for (auto root : roots) doTopologicalSort(root, funcs): the callee is
\* entered, pushes itself on funcs and evaluates callGraph[funcOp].
TopoRoot ==
  /\ phase = "topo"
  /\ stack = <<>>
  /\ rootIdx <= Len(roots)
  /\ funcs' = Append(funcs, roots[rootIdx])
  /\ callGraph' = CallGraphLookup(callGraph, roots[rootIdx])
  /\ stack' = <<TopoFrame(roots[rootIdx])>>
  /\ rootIdx' = rootIdx + 1
  /\ UNCHANGED <<funcMap, roots, phase, edgeOrder, nodeOrder, visited,
                 ret, trace, prevTrace, walks>>
  /\ UNCHANGED <<moduleVars, numVars, reduceVars>>

\* for (auto [callOp, callee] : callGraph[funcOp]) doTopologicalSort(callee, funcs)
TopoCall ==
  /\ phase = "topo"
  /\ stack # <<>>
  /\ Top.idx <= Len(callGraph[Top.func])
  /\ Len(stack) < MaxStack
  /\ LET callee == callGraph[Top.func][Top.idx][2]
     IN /\ funcs' = Append(funcs, callee)
        /\ callGraph' = CallGraphLookup(callGraph, callee)
        /\ stack' = Append(stack, TopoFrame(callee))
  /\ UNCHANGED <<funcMap, roots, phase, edgeOrder, nodeOrder, rootIdx,
                 visited, ret, trace, prevTrace, walks>>
  /\ UNCHANGED <<moduleVars, numVars, reduceVars>>

\* The recursion needs an activation record the machine stack has no room
\* for: the process dies of stack exhaustion.
TopoOverflow ==
  /\ phase = "topo"
  /\ stack # <<>>
  /\ Top.idx <= Len(callGraph[Top.func])
  /\ Len(stack) >= MaxStack
  /\ phase' = "overflow"
  /\ UNCHANGED <<callGraph, funcMap, roots, edgeOrder, nodeOrder,
                 rootIdx, stack, visited, funcs, ret, trace, prevTrace, walks>>
  /\ UNCHANGED <<moduleVars, numVars, reduceVars>>

\* The loop over the edges is over: doTopologicalSort returns.
TopoReturn ==
  /\ phase = "topo"
  /\ stack # <<>>
  /\ Top.idx > Len(callGraph[Top.func])
  /\ LET d == Len(stack)
         below == SubSeq(stack, 1, d - 1)
     IN stack' = IF d = 1 THEN <<>> ELSE [below EXCEPT ![d - 1].idx = @ + 1]
  /\ UNCHANGED <<callGraph, funcMap, roots, phase, edgeOrder, nodeOrder,
                 rootIdx, visited, funcs, ret, trace, prevTrace, walks>>
  /\ UNCHANGED <<moduleVars, numVars, reduceVars>>

\* A mutant: the duplicates are dropped before the list is reversed, so the
\* first push of a function is kept instead of its last.
SortedOfDedupFirst(fs) == Reverse(SetVectorInsertAll(<<>>, fs))

\* A mutant: the result is a plain vector, which keeps every push.
SortedOfNoDedup(fs) == Reverse(fs)

\* for (auto func : llvm::reverse(funcs)) sorted.insert(func)
SortedOf(fs) == SetVectorInsertAll(<<>>, Reverse(fs))

\* The loop over roots is over: funcs is reversed into the SetVector sorted,
\* which is returned.
TopoEnd ==
  /\ phase = "topo"
  /\ stack = <<>>
  /\ rootIdx > Len(roots)
  /\ ret' = [kind |-> "sorted", sorted |-> SortedOf(funcs)]
  /\ phase' = "idle"
  /\ UNCHANGED <<callGraph, funcMap, roots, edgeOrder, nodeOrder,
                 rootIdx, stack, visited, funcs, trace, prevTrace, walks>>
  /\ UNCHANGED <<moduleVars, numVars, reduceVars>>

(***************************************************************************)
(* getFuncData(funcOp).                                                    *)
(***************************************************************************)
\* A mutant: the slot is looked up with operator[] without the count test.
GetFuncDataCreating(fm, f) ==
  [map |-> MapInsertDefault(fm, f, "T"), ptr |-> f]

\* if (funcMap.count(funcOp)) return &funcMap[funcOp]; return nullptr;
\* map is funcMap after the call, ptr the slot the returned pointer is to
\* (NoFunc: nullptr).
GetFuncDataOf(fm, f) ==
  IF f \in DOMAIN fm
  THEN [map |-> MapInsertDefault(fm, f, "T"), ptr |-> f]
  ELSE [map |-> fm, ptr |-> NoFunc]

GetFuncData(f) ==
  /\ phase = "idle"
  /\ LET r == GetFuncDataOf(funcMap, f)
     IN /\ funcMap' = r.map
        /\ ret' = [kind |-> "funcData", func |-> f, ptr |-> r.ptr,
                   before |-> DOMAIN funcMap, after |-> DOMAIN r.map]
  /\ UNCHANGED <<callGraph, roots, phase, edgeOrder, nodeOrder, rootIdx,
                 stack, visited, funcs, trace, prevTrace, walks>>
  /\ UNCHANGED <<moduleVars, numVars, reduceVars>>

(***************************************************************************)
(* The specification of the call graph.                                    *)
(***************************************************************************)
\* The call-sites are numbered in the order the module walk meets them and
\* the functions in the order the module lists them, so the enclosing
\* function of a call-site never decreases along the call-sites.
ModuleShapes ==
  {p \in [Calls -> Funcs] : \A c, e \in Calls : c <= e => p[c] <= p[e]}

\* The functions whose IR parent is the module are numbered before the ones
\* nested in another function; the first function of a module is not nested.
NestedShapes == {k + 1 .. NumFuncs : k \in Funcs}

NumIdle ==
  /\ numOp = "none"
  /\ intKind = "none"
  /\ xs = <<>>
  /\ n = 0
  /\ order = <<>>
  /\ numOut = None

\* No ReduceOpHelper is under construction.
ReduceIdle ==
  /\ rop = None
  /\ helper = None
  /\ diags = <<>>

\* The CallGraph object before its constructor has run.
GraphNew ==
  /\ callGraph = EmptyMap
  /\ funcMap = EmptyMap
  /\ roots = <<>>
  /\ phase = "new"
  /\ edgeOrder = PreOrder
  /\ nodeOrder = PreOrder
  /\ rootIdx = 1
  /\ stack = <<>>
  /\ visited = {}
  /\ funcs = <<>>
  /\ ret = None
  /\ trace = <<>>
  /\ prevTrace = <<>>
  /\ walks = 0

Init ==
  /\ nested \in NestedShapes
  /\ callParent \in ModuleShapes
  /\ callTarget \in [Calls -> Funcs \cup {NoFunc}]
  /\ GraphNew
  /\ NumIdle
  /\ ReduceIdle

Next ==
  \/ Build
  \/ \E eo \in WalkOrder, no \in WalkOrder : WalkBegin(eo, no)
  \/ WalkRoot
  \/ DoWalkEdge
  \/ DoWalkCycle
  \/ DoWalkReturn
  \/ WalkEnd
  \/ TopoBegin
  \/ TopoRoot
  \/ TopoCall
  \/ TopoOverflow
  \/ TopoReturn
  \/ TopoEnd
  \/ \E f \in Funcs : GetFuncData(f)

Spec == Init /\ [][Next]_vars

(***************************************************************************)
(* The numeric helpers.  The integer types are modelled with their widths  *)
(* scaled down: int and unsigned are IntBits wide, int64_t twice that.     *)
(***************************************************************************)
\* Width of int and unsigned, in bits.
IntBits == 3
\* Longest sequence handed to product.
MaxLen == 3

IntKinds == {"int", "unsigned", "int64_t"}

RECURSIVE Pow2(_)
Pow2(k) == IF k = 0 THEN 1 ELSE 2 * Pow2(k - 1)

Bits(T) == IF T = "int64_t" THEN 2 * IntBits ELSE IntBits
IsSigned(T) == T # "unsigned"
MinVal(T) == IF IsSigned(T) THEN 0 - Pow2(Bits(T) - 1) ELSE 0
MaxVal(T) == IF IsSigned(T) THEN Pow2(Bits(T) - 1) - 1 ELSE Pow2(Bits(T)) - 1
ValuesOf(T) == MinVal(T) .. MaxVal(T)

\* The value of type T congruent to v modulo 2^Bits(T): what a conversion
\* to T, or arithmetic in an unsigned T, makes of the mathematical value v.
Wrap(T, v) ==
  LET u == v % Pow2(Bits(T))
  IN IF IsSigned(T) /\ u > MaxVal(T) THEN u - Pow2(Bits(T)) ELSE u

\* v as the bit pattern of a T: a number in 0 .. 2^Bits(T) - 1.
ToBits(T, v) == v % Pow2(Bits(T))

RECURSIVE BitAnd(_, _)
BitAnd(a, b) ==
  IF a = 0 \/ b = 0 THEN 0
  ELSE (a % 2) * (b % 2) + 2 * BitAnd(a \div 2, b \div 2)

BitNot(T, a) == Pow2(Bits(T)) - 1 - a

\* A result: the value computed, and whether computing it overflowed a
\* signed type (undefined behaviour).
Val(v, ub) == [val |-> v, ub |-> ub]

\* a * b in type T, as std::multiplies<void> does it after the usual
\* arithmetic conversions have brought both operands to T.
MulIn(T, a, b) ==
  LET m == Wrap(T, a) * Wrap(T, b)
  IN Val(Wrap(T, m), IsSigned(T) /\ m \notin ValuesOf(T))

\* The type of std::accumulate's accumulator: that of its init argument,
\* the literal 1.
AccType(T) == "int"

\* std::accumulate(arr.begin(), arr.end(), 1, std::multiplies{}):
\* acc = std::move(acc) * x for each x, the product converted back to the
\* accumulator's type.
RECURSIVE Accumulate(_, _, _)
Accumulate(T, s, acc) ==
  IF s = <<>> THEN acc
  ELSE LET t == MulIn(T, acc.val, Head(s))
       IN Accumulate(T, Tail(s), Val(Wrap(AccType(T), t.val), acc.ub \/ t.ub))

\* product<Int>(arr): the accumulator converted to the return type Int.
Product(T, s) ==
  LET r == Accumulate(T, s, Val(1, FALSE))
  IN Val(Wrap(T, r.val), r.ub)

\* A mutant: the complement is left out, n & (n - 1).
HighestPowOf2DivisorNoComplement(T, v) ==
  IF v = 0 THEN Val(Pow2(Bits(T) - 2), FALSE)
  ELSE Val(Wrap(T, BitAnd(ToBits(T, v), ToBits(T, v - 1))),
           IsSigned(T) /\ v - 1 \notin ValuesOf(T))

\* highestPowOf2Divisor<T>(n): n & ~(n - 1), or 1 << (sizeof(T) * 8 - 2)
\* for n == 0.  n - 1 overflows for the least value of a signed T.
HighestPowOf2Divisor(T, v) ==
  IF v = 0 THEN Val(Pow2(Bits(T) - 2), FALSE)
  ELSE Val(Wrap(T, BitAnd(ToBits(T, v), BitNot(T, ToBits(T, v - 1)))),
           IsSigned(T) /\ v - 1 \notin ValuesOf(T))

\* The values a call may return: the one computed, or any value of the type
\* when the computation has undefined behaviour.
Outcomes(T, r) == IF r.ub THEN ValuesOf(T) ELSE {r.val}

ProductCall ==
  /\ numOp = "product"
  /\ numOut = None
  /\ \E v \in Outcomes(intKind, Product(intKind, xs)) :
       numOut' = [kind |-> "product", val |-> v]
  /\ UNCHANGED <<numOp, intKind, xs, n, order>>
  /\ UNCHANGED <<moduleVars, graphVars, reduceVars>>

HighestPowOf2DivisorCall ==
  /\ numOp = "highestPowOf2Divisor"
  /\ numOut = None
  /\ \E v \in Outcomes(intKind, HighestPowOf2Divisor(intKind, n)) :
       numOut' = [kind |-> "highestPowOf2Divisor", val |-> v]
  /\ UNCHANGED <<numOp, intKind, xs, n, order>>
  /\ UNCHANGED <<moduleVars, graphVars, reduceVars>>

\* A mutant: the permutation is applied to the index written,
\* result[it.value()] = input[it.index()].
ReorderScatter(input, ord) ==
  [j \in 1 .. Len(ord) |->
     input[CHOOSE i \in 1 .. Len(ord) : ord[i] + 1 = j]]

\* reorder<T>(input, order): result[it.index()] = input[it.value()] for
\* each position of order; the positions of the ArrayRefs count from 0,
\* those of the sequences from 1.  input.size() == order.size() is asserted.
Reorder(input, ord) ==
  [i \in 1 .. Len(ord) |-> input[ord[i] + 1]]

\* The first call, reorder(xs, order).
ReorderCall ==
  /\ numOp = "reorder"
  /\ numOut = None
  /\ Len(xs) = Len(order)
  /\ numOut' = [kind |-> "reorder", val |-> Reorder(xs, order)]
  /\ UNCHANGED <<numOp, intKind, xs, n, order>>
  /\ UNCHANGED <<moduleVars, graphVars, reduceVars>>

\* A second call, on the result of the first, under the order o2.
ReorderAgainCall(o2) ==
  /\ numOp = "reorder"
  /\ numOut.kind = "reorder"
  /\ Len(numOut.val) = Len(o2)
  /\ numOut' = [kind |-> "reorderAgain", first |-> numOut.val,
                order2 |-> o2, val |-> Reorder(numOut.val, o2)]
  /\ UNCHANGED <<numOp, intKind, xs, n, order>>
  /\ UNCHANGED <<moduleVars, graphVars, reduceVars>>

\* The orders handed to reorder: the permutations of 0 .. k - 1.
Orders(k) ==
  {o \in [1 .. k -> 0 .. k - 1] : \A i, j \in 1 .. k : o[i] = o[j] => i = j}

\* The elements of the sequences handed to reorder.
ReorderElems == 1 .. MaxLen

\* The elements of the sequences handed to product: extents of a shape,
\* positive, some of them above the largest int.
ProductElems(T) ==
  {v \in 1 .. Pow2(IntBits) : v <= MaxVal(T)}

SeqsUpTo(S, len) == UNION {[1 .. k -> S] : k \in 0 .. len}

InitNum ==
  /\ nested = {}
  /\ callParent = [c \in Calls |-> 1]
  /\ callTarget = [c \in Calls |-> NoFunc]
  /\ GraphNew
  /\ ReduceIdle
  /\ numOut = None
  /\ \/ /\ numOp = "product"
        /\ intKind \in IntKinds
        /\ xs \in SeqsUpTo(ProductElems(intKind), MaxLen)
        /\ n = 0
        /\ order = <<>>
     \/ /\ numOp = "highestPowOf2Divisor"
        /\ intKind \in IntKinds
        /\ xs = <<>>
        /\ n \in ValuesOf(intKind)
        /\ order = <<>>
     \/ /\ numOp = "reorder"
        /\ intKind = "unsigned"
        /\ \E k \in 0 .. MaxLen :
             /\ xs \in [1 .. k -> ReorderElems]
             /\ order \in Orders(k)
        /\ n = 0

NextNum ==
  \/ ProductCall
  \/ HighestPowOf2DivisorCall
  \/ ReorderCall
  \/ \E k \in 0 .. MaxLen : \E o2 \in Orders(k) : ReorderAgainCall(o2)

SpecNum == InitNum /\ [][NextNum]_vars

(***************************************************************************)
(* ReduceOpHelper.  A triton::ReduceOp is its axis and the types of its    *)
(* operands; a RankedTensorType is a shape, an encoding attribute and an   *)
(* element type.                                                           *)
(***************************************************************************)
\* Most operands of a ReduceOp.
MaxOperands == 3

Shapes == {<<2>>, <<2, 4>>}
\* The encoding attributes; "null" is the null Attribute of a tensor type
\* without encoding.
Encodings == {"null", "blocked"}
ElementTypes == {"f32", "i32"}
TensorTypes == [shape : Shapes, encoding : Encodings, elem : ElementTypes]
Axes == 0 .. 1

\* rop.getInputTypes(): the types of the operands, in order.
GetInputTypes(r) == r.operands
\* rop.getElementTypes(): the element type of each operand.
GetElementTypes(r) == [i \in DOMAIN r.operands |-> r.operands[i].elem]

Diag(i, msg) == [operand |-> i, msg |-> msg]

\* A mutant: the loop is left at the first operand that mismatches.
InputDiagsUntilFirst(types, srcShape, srcEncoding) ==
  LET bad == {i \in DOMAIN types : \/ types[i].shape # srcShape
                                    \/ types[i].encoding # srcEncoding}
  IN IF bad = {} THEN <<>>
     ELSE LET i == CHOOSE j \in bad : \A k \in bad : j <= k
          IN IF types[i].shape # srcShape
             THEN <<Diag(i, "shape mismatch")>>
             ELSE <<Diag(i, "encoding mismatch")>>

\* The diagnostics of one pass of the loop, for the i-th input type t.
DiagsOfInput(i, t, srcShape, srcEncoding) ==
  (IF t.shape # srcShape THEN <<Diag(i, "shape mismatch")>> ELSE <<>>)
  \o (IF t.encoding # srcEncoding
      THEN <<Diag(i, "encoding mismatch")>> ELSE <<>>)

RECURSIVE InputDiagsFrom(_, _, _, _)
InputDiagsFrom(types, i, srcShape, srcEncoding) ==
  IF i > Len(types) THEN <<>>
  ELSE DiagsOfInput(i, types[i], srcShape, srcEncoding)
       \o InputDiagsFrom(types, i + 1, srcShape, srcEncoding)

\* The loop over rop.getInputTypes(): each emitError() is reported when its
\* statement ends, and the loop goes on.
InputDiags(types, srcShape, srcEncoding) ==
  InputDiagsFrom(types, 1, srcShape, srcEncoding)

\* rop.getOperands()[0].getType().cast<RankedTensorType>()
FirstTy(r) == r.operands[1]

\* explicit ReduceOpHelper(triton::ReduceOp rop)
ReduceOpHelperCtor ==
  /\ rop # None
  /\ helper = None
  /\ LET firstTy == FirstTy(rop)
         srcShape == firstTy.shape
         srcEncoding == firstTy.encoding
     IN /\ helper' = [kind |-> "ReduceOpHelper",
                      op |-> rop,
                      axis |-> rop.axis,
                      srcShape |-> srcShape,
                      srcEncoding |-> srcEncoding,
                      srcElementTypes |-> GetElementTypes(rop)]
        /\ diags' = diags \o InputDiags(GetInputTypes(rop),
                                        srcShape, srcEncoding)
  /\ UNCHANGED <<rop, moduleVars, graphVars, numVars>>

\* The ReduceOps handed to the constructor: at least one operand, each a
\* ranked tensor.
ReduceOps ==
  [kind : {"ReduceOp"}, axis : Axes,
   operands : UNION {[1 .. k -> TensorTypes] : k \in 1 .. MaxOperands}]

InitReduce ==
  /\ nested = {}
  /\ callParent = [c \in Calls |-> 1]
  /\ callTarget = [c \in Calls |-> NoFunc]
  /\ GraphNew
  /\ NumIdle
  /\ rop \in ReduceOps
  /\ helper = None
  /\ diags = <<>>

NextReduce == ReduceOpHelperCtor

SpecReduce == InitReduce /\ [][NextReduce]_vars

(***************************************************************************)
(* Graph notions the properties are stated with.                           *)
(***************************************************************************)
\* The recorded edges of function f: pairs <<call-site, callee>>.
EdgesOf(f) == IF f \in DOMAIN callGraph THEN callGraph[f] ELSE <<>>

Callees(f) == {EdgesOf(f)[i][2] : i \in DOMAIN EdgesOf(f)}

RECURSIVE Reach(_)
Reach(S) ==
  LET T == S \cup UNION {Callees(f) : f \in S}
  IN IF T = S THEN S ELSE Reach(T)

\* The functions reachable from a root by zero or more edges.
Reachable == Reach(Range(roots))

OnCycle(f) == f \in Reach(Callees(f))

Acyclic == \A f \in Funcs : ~OnCycle(f)

ReachableCycle == \E f \in Reachable : OnCycle(f)

\* The hook invocations of a sequence of events.
IsHook(e) == e.kind \in {"node", "edge"}
HookCalls(t) == SelectSeq(t, IsHook)

WalkReturned == phase = "idle" /\ ret.kind = "walk"

(***************************************************************************)
(* C1: on an acyclic module, topologicalSort() returns every callee before *)
(* every one of its callers: for each recorded edge caller -> callee with  *)
(* both functions in the result, the callee's index is strictly smaller.   *)
(***************************************************************************)
C1_TopoCalleeBeforeCaller ==
  (ret.kind = "sorted" /\ Acyclic) =>
    \A f \in Funcs : \A g \in Callees(f) :
      (f \in Range(ret.sorted) /\ g \in Range(ret.sorted)) =>
        IndexOf(ret.sorted, g) < IndexOf(ret.sorted, f)

\* A sort of an acyclic graph in which a function was pushed more than once
\* (it is reached along several paths) and some edge has both ends sorted.
C1_Witness ==
  /\ ret.kind = "sorted"
  /\ Acyclic
  /\ Len(funcs) > Len(ret.sorted)
  /\ \E f \in Range(ret.sorted) : Callees(f) # {}

(***************************************************************************)
(* C2: during one walk over an acyclic call graph, updateEdgeFn is invoked *)
(* exactly once for every recorded edge reachable from a root, for either  *)
(* choice of the edge order.                                               *)
(***************************************************************************)
C2_EdgeHookOncePerEdge ==
  (WalkReturned /\ Acyclic) =>
    \A f \in Reachable : \A i \in DOMAIN EdgesOf(f) :
      Cardinality({k \in DOMAIN trace :
                     /\ trace[k].kind = "edge"
                     /\ trace[k].call = EdgesOf(f)[i][1]
                     /\ trace[k].func = EdgesOf(f)[i][2]}) = 1

(***************************************************************************)
(* C3: for every edge traversed at any depth, with the edge order PreOrder *)
(* the edge hook is invoked before the recursive traversal of the callee   *)
(* starts, and with PostOrder only after that traversal has finished.      *)
(***************************************************************************)
\* The nearest event before / after position i that is no edge hook (0: none).
PrevNonEdge(i) ==
  LET S == {j \in 1 .. i - 1 : trace[j].kind # "edge"}
  IN IF S = {} THEN 0 ELSE CHOOSE j \in S : \A k \in S : k <= j
NextNonEdge(i) ==
  LET S == {j \in i + 1 .. Len(trace) : trace[j].kind # "edge"}
  IN IF S = {} THEN 0 ELSE CHOOSE j \in S : \A k \in S : j <= k

EdgeHookBeforeTraversal(i) ==
  LET e == trace[i]
      j == NextNonEdge(i)
  IN j # 0 /\ trace[j] = Event("enter", e.call, e.func, e.depth + 1)

EdgeHookAfterTraversal(i) ==
  LET e == trace[i]
      j == PrevNonEdge(i)
  IN j # 0 /\ trace[j] = Event("leave", e.call, e.func, e.depth + 1)

C3_EdgeHookOrder ==
  \A i \in DOMAIN trace :
    trace[i].kind = "edge" =>
      IF edgeOrder = PreOrder THEN EdgeHookBeforeTraversal(i)
      ELSE EdgeHookAfterTraversal(i)

(***************************************************************************)
(* C4: with the node order PostOrder, for every function visited (a root   *)
(* or a callee at any depth) the node hook is invoked after all outgoing   *)
(* edges of the function have been traversed and not before them: it is    *)
(* the last thing its doWalk does.  Stated for the acyclic graphs walk is   *)
(* meant for.                                                              *)
(***************************************************************************)
C4_NodeHookPostOrder ==
  (nodeOrder = PostOrder /\ Acyclic) =>
    /\ \A i \in DOMAIN trace :
         (trace[i].kind = "node" /\ i < Len(trace)) =>
           trace[i + 1] = [trace[i] EXCEPT !.kind = "leave"]
    /\ \A i \in DOMAIN trace :
         trace[i].kind = "leave" =>
           (i > 1 /\ trace[i - 1] = [trace[i] EXCEPT !.kind = "node"])

(***************************************************************************)
(* C5: when the call graph holds a cycle reachable from a root, walk never *)
(* returns normally, and the fatal error is raised exactly when the        *)
(* call-site of the edge about to be traversed is on the current DFS       *)
(* stack: no such edge is ever traversed, and the error is raised for no   *)
(* other edge.                                                             *)
(***************************************************************************)
\* The call-sites of the edges on the DFS stack.
StackCalls == {stack[i].via : i \in 2 .. Len(stack)}

C5_CycleIsFatal ==
  /\ ReachableCycle => ~WalkReturned
  /\ phase \in {"walk", "fatal"} =>
       \A i, j \in 2 .. Len(stack) : i # j => stack[i].via # stack[j].via
  /\ phase = "fatal" =>
       /\ trace[Len(trace)].kind = "fatal"
       /\ trace[Len(trace)].call \in StackCalls
       /\ ReachableCycle

\* The walk of a cycle through two functions has died.
C5_Witness ==
  /\ phase = "fatal"
  /\ Len(stack) >= 3
  /\ stack[1].func = stack[3].func
  /\ stack[1].func # stack[2].func

(***************************************************************************)
(* C6: when the call graph holds a cycle reachable from a root,            *)
(* topologicalSort() detects it and aborts instead of recursing without    *)
(* bound: its recursion is never deeper than the number of functions plus  *)
(* one (the activation that re-enters a function and finds the cycle), and *)
(* it never exhausts the stack.                                            *)
(***************************************************************************)
C6_TopoSortDetectsCycle ==
  /\ phase # "overflow"
  /\ phase = "topo" => Len(stack) <= NumFuncs + 1

(***************************************************************************)
(* C7: two successive walks with the same template orders and hooks make   *)
(* the same sequence of hook invocations; the roots are visited in the     *)
(* recorded order and each function's edges in their insertion order.      *)
(***************************************************************************)
\* The activations entered at depth d between positions lo and hi of t.
EnteredAt(t, lo, hi, d) ==
  LET IsEnter(e) == e.kind = "enter" /\ e.depth = d
  IN SelectSeq(SubSeq(t, lo, hi), IsEnter)

\* The position of the "enter" event the "leave" event at k answers.
EnterOf(t, k) ==
  CHOOSE j \in 1 .. k - 1 :
    /\ t[j] = [t[k] EXCEPT !.kind = "enter"]
    /\ \A m \in j + 1 .. k - 1 : t[m] # [t[k] EXCEPT !.kind = "enter"]

InRecordedOrder(t) ==
  /\ LET rs == EnteredAt(t, 1, Len(t), 1)
     IN /\ Len(rs) = Len(roots)
        /\ \A i \in DOMAIN rs : rs[i].func = roots[i] /\ rs[i].call = NoCall
  /\ \A k \in DOMAIN t :
       t[k].kind = "leave" =>
         LET es == EnteredAt(t, EnterOf(t, k), k, t[k].depth + 1)
         IN /\ Len(es) = Len(EdgesOf(t[k].func))
            /\ \A i \in DOMAIN es :
                 <<es[i].call, es[i].func>> = EdgesOf(t[k].func)[i]

C7_WalkDeterministic ==
  /\ WalkReturned => InRecordedOrder(trace)
  /\ (WalkReturned /\ walks >= 2) => HookCalls(trace) = HookCalls(prevTrace)

\* A second walk has returned, and it made hook invocations for several
\* roots and for an edge.
C7_Witness ==
  /\ WalkReturned
  /\ walks >= 2
  /\ Len(roots) >= 2
  /\ \E i \in DOMAIN trace : trace[i].kind = "edge"

(***************************************************************************)
(* C8: getFuncData(f) returns a pointer to the slot of f iff funcMap holds *)
(* one, nullptr otherwise, and leaves the key set of funcMap as it was;    *)
(* the slots funcMap holds are those the node hooks of the walks created.  *)
(***************************************************************************)
C8_GetFuncDataNoCreate ==
  /\ ret.kind = "funcData" =>
       /\ ret.ptr = (IF ret.func \in ret.before THEN ret.func ELSE NoFunc)
       /\ ret.after = ret.before
       /\ DOMAIN funcMap = ret.before
  /\ \A f \in DOMAIN funcMap :
       \E e \in Range(trace) \cup Range(prevTrace) : e.kind = "node" /\ e.func = f

\* After a walk that created slots, getFuncData returned nullptr for a
\* function that has none.
C8_Witness ==
  /\ ret.kind = "funcData"
  /\ ret.ptr = NoFunc
  /\ walks >= 1
  /\ DOMAIN funcMap # {}

(***************************************************************************)
(* C9: product(xs) is the mathematical product of the elements whenever    *)
(* that product is representable in Int, for every Int (the wide one, with *)
(* elements or partial products above the largest int, included), and the  *)
(* product of the empty sequence is 1.                                     *)
(***************************************************************************)
RECURSIVE MathProduct(_)
MathProduct(s) == IF s = <<>> THEN 1 ELSE Head(s) * MathProduct(Tail(s))

C9_ProductIsProduct ==
  numOut.kind = "product" =>
    /\ MathProduct(xs) \in ValuesOf(intKind) => numOut.val = MathProduct(xs)
    /\ xs = <<>> => numOut.val = 1

(***************************************************************************)
(* C10: for every non-zero n of a fixed-width integer type T, positive or  *)
(* negative, highestPowOf2Divisor(n) is a power of two that divides n, and *)
(* twice it does not divide n.                                             *)
(***************************************************************************)
IsPow2(v) == \E k \in 0 .. 2 * IntBits : v = Pow2(k)

LargestPow2Dividing(v, h) ==
  /\ IsPow2(h)
  /\ v % h = 0
  /\ v % (2 * h) # 0

C10_HighestPowOf2Divisor_AllNonZero ==
  (numOut.kind = "highestPowOf2Divisor" /\ n # 0) =>
    LargestPow2Dividing(n, numOut.val)

(***************************************************************************)
(* C10, amended: the same for every non-zero n other than the least value  *)
(* of a signed T (whose largest power-of-two divisor, 2^(B-1), is no value *)
(* of T, and for which n - 1 overflows).                                   *)
(***************************************************************************)
C10_HighestPowOf2Divisor ==
  (/\ numOut.kind = "highestPowOf2Divisor"
   /\ n # 0
   /\ ~(IsSigned(intKind) /\ n = MinVal(intKind))) =>
    LargestPow2Dividing(n, numOut.val)

\* A negative n with a divisor above 1, and the top bit of an unsigned.
C10_Witness ==
  /\ numOut.kind = "highestPowOf2Divisor"
  /\ \/ n < 0 /\ numOut.val > 1 /\ n # MinVal(intKind)
     \/ intKind = "unsigned" /\ n = Pow2(IntBits - 1) /\ numOut.val = n

(***************************************************************************)
(* C11.  reorder(input, order)[i] = input[order[i]] at every position i,   *)
(* and for every permutation sigma of [0, k) and every sequence x of       *)
(* length k, reorder(reorder(x, sigma), inverse of sigma) = x.             *)
(***************************************************************************)
IsInverseOf(o2, o) ==
  /\ Len(o2) = Len(o)
  /\ \A i \in 1 .. Len(o) : o2[o[i] + 1] = i - 1

C11_ReorderRoundTrip ==
  /\ numOut.kind = "reorder" =>
       /\ Len(numOut.val) = Len(xs)
       /\ \A i \in 1 .. Len(xs) : numOut.val[i] = xs[order[i] + 1]
  /\ (numOut.kind = "reorderAgain" /\ IsInverseOf(numOut.order2, order)) =>
       numOut.val = xs

C11_Witness ==
  /\ numOut.kind = "reorderAgain"
  /\ IsInverseOf(numOut.order2, order)
  /\ numOut.order2 # order
  /\ numOut.first # xs
  /\ numOut.val = xs

(***************************************************************************)
(* C12.  Constructing a ReduceOpHelper always completes.  It emits one     *)
(* "shape mismatch" diagnostic for each operand whose shape differs from   *)
(* the first operand's and one "encoding mismatch" diagnostic for each     *)
(* operand whose encoding differs from the first operand's, and none when  *)
(* all operands agree; the stored srcShape and srcEncoding are those of    *)
(* the first operand and the stored axis is that of the op.                *)
(***************************************************************************)
DiagCount(i, msg) ==
  Cardinality({k \in DOMAIN diags : diags[k] = Diag(i, msg)})

C12_ReduceOpHelperCtor ==
  /\ (rop # None /\ helper = None) => ENABLED ReduceOpHelperCtor
  /\ helper # None =>
       /\ helper.srcShape = rop.operands[1].shape
       /\ helper.srcEncoding = rop.operands[1].encoding
       /\ helper.axis = rop.axis
       /\ helper.op = rop
       /\ \A i \in DOMAIN rop.operands :
            /\ DiagCount(i, "shape mismatch") =
                 IF rop.operands[i].shape # rop.operands[1].shape
                 THEN 1 ELSE 0
            /\ DiagCount(i, "encoding mismatch") =
                 IF rop.operands[i].encoding # rop.operands[1].encoding
                 THEN 1 ELSE 0
       /\ \A k \in DOMAIN diags :
            /\ diags[k].operand \in DOMAIN rop.operands
            /\ diags[k].msg \in {"shape mismatch", "encoding mismatch"}
       /\ (\A i \in DOMAIN rop.operands :
             rop.operands[i] = rop.operands[1]) => diags = <<>>

C12_Witness ==
  /\ helper # None
  /\ Len(rop.operands) = MaxOperands
  /\ rop.operands[2].shape # rop.operands[1].shape
  /\ rop.operands[2].encoding = rop.operands[1].encoding
  /\ rop.operands[3].encoding # rop.operands[1].encoding
  /\ Len(diags) >= 2

(***************************************************************************)
(* C13.  The cycle detection has no false positive: on an acyclic call     *)
(* graph (several call-sites between one pair of functions, a callee       *)
(* reached through several callers, a callee that is also a root) walk     *)
(* never reports a cycle.                                                  *)
(***************************************************************************)
C13_NoFalseCycle ==
  Acyclic =>
    /\ phase # "fatal"
    /\ \A i \in DOMAIN trace : trace[i].kind # "fatal"
    /\ phase = "walk" => ~ENABLED DoWalkCycle

\* A walk that returned after traversing one call-site twice, once below
\* each of two roots, its callee being entered through a caller that is
\* itself a root and a callee.
C13_Witness ==
  /\ WalkReturned
  /\ Acyclic
  /\ \E i, j \in DOMAIN trace :
       /\ i < j
       /\ trace[i].kind = "enter" /\ trace[j].kind = "enter"
       /\ trace[i].call # NoCall
       /\ trace[i].call = trace[j].call
       /\ trace[i].depth # trace[j].depth

(***************************************************************************)
(* C14.  On an acyclic call graph the result of topologicalSort contains   *)
(* each function reachable from a root exactly once, and no function that  *)
(* no root reaches.                                                        *)
(***************************************************************************)
C14_TopoSortReachableOnce ==
  (ret.kind = "sorted" /\ Acyclic) =>
    /\ Range(ret.sorted) = Reachable
    /\ \A i, j \in DOMAIN ret.sorted :
         ret.sorted[i] = ret.sorted[j] => i = j

\* A sort that pushed some function more than once and left one out.
C14_Witness ==
  /\ ret.kind = "sorted"
  /\ Acyclic
  /\ Reachable # Funcs
  /\ Len(funcs) > Len(ret.sorted)
  /\ Len(ret.sorted) >= 2

(***************************************************************************)
(* C15.  After construction the edges recorded for a function f are        *)
(* exactly the call-sites enclosed in f whose callee resolves to a         *)
(* function: one edge per call-site, labelled with it and its callee, in   *)
(* the order the module walk meets them.  A call-site whose callee does    *)
(* not resolve contributes no edge.                                        *)
(***************************************************************************)
RECURSIVE ResolvedSitesFrom(_, _)
ResolvedSitesFrom(f, c) ==
  IF c > NumCalls THEN <<>>
  ELSE (IF callParent[c] = f /\ callTarget[c] # NoFunc
        THEN <<(<<c, callTarget[c]>>)>> ELSE <<>>)
       \o ResolvedSitesFrom(f, c + 1)

C15_BuildEdges ==
  phase # "new" =>
    /\ DOMAIN callGraph \subseteq Funcs
    /\ \A f \in Funcs : EdgesOf(f) = ResolvedSitesFrom(f, 1)

C15_Witness ==
  /\ phase = "idle"
  /\ \E c, d \in Calls :
       /\ callParent[c] = callParent[d]
       /\ callTarget[c] = NoFunc
       /\ callTarget[d] # NoFunc
       /\ EdgesOf(callParent[c]) = <<(<<d, callTarget[d]>>)>>
  /\ \E f \in Funcs : f \notin DOMAIN callGraph

(***************************************************************************)
(* C16.  At every point of a walk, visited is the set of the call-sites of *)
(* the edges on the current stack of doWalk activations; it is empty when  *)
(* the traversal of a root begins and when walk returns.                   *)
(***************************************************************************)
C16_VisitedIsStack ==
  /\ phase \in {"walk", "fatal"} =>
       /\ visited = StackCalls
       /\ Cardinality(visited) = IF stack = <<>> THEN 0 ELSE Len(stack) - 1
       /\ stack = <<>> => visited = {}
  /\ WalkReturned => visited = {}

C16_Witness ==
  /\ phase = "walk"
  /\ Len(stack) = 3
  /\ Cardinality(visited) = 2
  /\ walks = 1

(***************************************************************************)
(* C17.  walk terminates on every finite call graph, cyclic or not: it     *)
(* returns after finitely many hook invocations or stops with the fatal    *)
(* error.  As a safety property: while walk runs some step of it is        *)
(* enabled, every step that leaves it running adds an event to the trace,  *)
(* the recursion is at most one deeper than there are call-sites, and the  *)
(* trace never exceeds a bound that depends on the size of the module      *)
(* only; so a walk makes at most that many steps.                          *)
(***************************************************************************)
WalkStep ==
  \/ WalkRoot
  \/ DoWalkEdge
  \/ DoWalkCycle
  \/ DoWalkReturn
  \/ WalkEnd

\* The number of sequences of distinct call-sites out of k.
RECURSIVE SitePaths(_)
SitePaths(k) == IF k = 0 THEN 1 ELSE 1 + k * SitePaths(k - 1)

\* Each activation is entered below one root through a sequence of distinct
\* call-sites and accounts for at most six events (three edge hooks, its
\* entry, its node hook, its exit); one more for the fatal error.
TraceBound == 6 * Len(roots) * SitePaths(NumCalls) + 1

C17_WalkTerminates ==
  /\ [](/\ phase = "walk" => ENABLED WalkStep
        /\ phase \in {"walk", "fatal"} =>
             /\ Len(stack) <= NumCalls + 1
             /\ Len(trace) <= TraceBound)
  /\ [][phase = "walk" =>
         \/ phase' \in {"idle", "fatal"}
         \/ phase' = "walk" /\ Len(trace') > Len(trace)]_vars

\* A walk of a cyclic graph that has stopped and a walk that recursed as
\* deep as the call-sites allow.
C17_Witness ==
  /\ phase = "fatal"
  /\ ~Acyclic
  /\ Len(stack) = NumCalls + 1

(***************************************************************************)
(* C18.  walk does not memoize: on an acyclic call graph the number of     *)
(* times a walk enters a function f, and the number of node hook           *)
(* invocations for f, is the number of call-site paths from a root to f,   *)
(* the empty path counted when f is a root.                                *)
(***************************************************************************)
\* The edges into f: <<g, i>> for the i-th edge of g, if its callee is f.
InEdges(f) ==
  {e \in Funcs \X Calls :
     e[2] \in DOMAIN EdgesOf(e[1]) /\ EdgesOf(e[1])[e[2]][2] = f}

RECURSIVE PathsTo(_)
RECURSIVE PathsThrough(_)
\* The number of call-site paths from a root to f (on an acyclic graph).
PathsTo(f) == (IF f \in Range(roots) THEN 1 ELSE 0) + PathsThrough(InEdges(f))
\* The number of those that end with an edge of E.
PathsThrough(E) ==
  IF E = {} THEN 0
  ELSE LET e == CHOOSE x \in E : TRUE
       IN PathsTo(e[1]) + PathsThrough(E \ {e})

EventsOf(k, f) ==
  Cardinality({i \in DOMAIN trace : trace[i].kind = k /\ trace[i].func = f})

EntersArePaths ==
  \A f \in Funcs :
    /\ EventsOf("enter", f) = PathsTo(f)
    /\ EventsOf("node", f) = PathsTo(f)

\* As stated: a root that is called by any other function is entered more
\* than once in a single walk.
C18_CalledRootEnteredTwice ==
  (WalkReturned /\ Acyclic) =>
    /\ EntersArePaths
    /\ \A f \in Range(roots) :
         (\E g \in Funcs \ {f} : f \in Callees(g)) =>
           EventsOf("enter", f) >= 2

\* C18, amended: a root that is called by a function some root reaches is
\* entered more than once in a single walk.
C18_EntersArePaths ==
  (WalkReturned /\ Acyclic) =>
    /\ EntersArePaths
    /\ \A f \in Range(roots) :
         (\E g \in Reachable \ {f} : f \in Callees(g)) =>
           EventsOf("enter", f) >= 2

\* A walk that entered a root three times: as a root, from a caller that is
\* a root, and from that caller entered from its own caller.
C18_Witness ==
  /\ WalkReturned
  /\ Acyclic
  /\ \E f \in Range(roots) :
       /\ \E g \in Reachable \ {f} : f \in Callees(g)
       /\ PathsTo(f) = 3
       /\ EventsOf("enter", f) = 3

====
